---- MODULE Spec2Model ----
(***************************************************************************)
(* Model of src/Pico_main.py: the plant monitoring and automatic watering  *)
(* loop of a Raspberry Pi Pico W.  The program is one thread; pc is the    *)
(* statement main() is about to execute, the callees upload_values,        *)
(* get_soil_humidity, get_temperature, motor_forward, motor_stop and       *)
(* channel_update are inlined at their call sites with their own labels.   *)
(* clock is time.time() in seconds; every blocking time.sleep(n) advances  *)
(* it by n, every network request by a latency drawn from Latencies.       *)
(***************************************************************************)
EXTENDS Integers, FiniteSets, Sequences, TLC

VARIABLES
    pc,             \* statement of main() (or of an inlined callee) to run next
    clock,          \* time.time(), seconds
    wifiTries,      \* iterations of the wait loop of connect_to_wifi
    hour,           \* main: hour
    last_upload,    \* main: last_upload
    current_time,   \* main: current_time
    plant_watered,  \* main: plant_watered
    soil_value,     \* main: soil_value
    caller,         \* call site of get_soil_humidity: "upload_values" or "main"
    raw,            \* get_soil_humidity: raw
    field1,         \* upload_values: field1_value
    field23,        \* upload_values: <<field2_value, field3_value>>
    msg,            \* channel_update: msg
    wire,           \* the HTTP request in flight, NoRequest when there is none
    IN1, IN2,       \* motor direction pins
    ENA,            \* PWM duty of the pump enable pin
    HEAT_PIN_SOIL,  \* heater pin of the soil probe
    HEAT_PIN_TEMP,  \* heater pin of the DHT22
    boot,           \* clock when the main loop was entered (bounds the run)
    tick,           \* observations of the current loop iteration
    entry,          \* observations of the current stay of hour in {8, 20}
    runs            \* observations of the pump runs: the last one and the gap before it

prog == <<pc, clock, wifiTries, hour, last_upload, current_time, plant_watered,
          soil_value, caller, raw, field1, field23, msg, wire>>
pins == <<IN1, IN2, ENA, HEAT_PIN_SOIL, HEAT_PIN_TEMP>>
vars == <<prog, pins, boot, tick, entry, runs>>

----------------------------------------------------------------------------
(* Program constants *)

UPLOAD_INTERVAL == 3600
DRY_THRESHOLD == 16000
PUMP_SPEED == 32768
PUMP_SECONDS == 60
TICK_SECONDS == 30
HEAT_SECONDS == 1
SETTLE_SECONDS == 2
WIFI_SECONDS == 2
TIMEZONE_OFFSET == 2
MAX_U16 == 65535

(* Bounds of the model *)

Horizon == 7500         \* seconds of main loop that are explored
MaxLatency == 3         \* longest time a network request blocks, seconds
MaxWifiTries == 2       \* iterations of the Wi-Fi wait loop that are explored

None == 0 - 1           \* a Python name that is not bound yet
NoRequest == [kind |-> "none"]

Latencies == {0, MaxLatency}
SoilReadings == {DRY_THRESHOLD, DRY_THRESHOLD + 1, 20000, MAX_U16}
DhtReadings == {<<215, 480>>}
BootHours == {7, 8, 19, 23}
BootSeconds == {0, 1790}

\* time.localtime(t)[3]
HourOfDay(t) == (t \div 3600) % 24

\* get_current_time()[3]
LocalHour(t) == HourOfDay(t + TIMEZONE_OFFSET * 3600)

\* The clock values ntptime.settime() may set: local hour h, s seconds into it.
BootTimes ==
    {(((h + 24 - TIMEZONE_OFFSET) % 24) * 3600) + s : h \in BootHours, s \in BootSeconds}

NewTick == [uploads |-> 0, teleReads |-> 0, waterReads |-> 0, starts |-> 0,
            stops |-> 0, status |-> 0, lu0 |-> None, hour0 |-> None,
            watered0 |-> FALSE, onAt |-> None, ranFor |-> None]
NewEntry == [starts |-> 0, first |-> "none"]
NoRuns == [at |-> None, ups |-> 0, gapUps |-> None, gapSecs |-> None]

Init ==
    /\ pc = "connect_to_wifi"
    /\ clock = 0
    /\ wifiTries = 0
    /\ hour = None
    /\ last_upload = None
    /\ current_time = None
    /\ plant_watered = FALSE
    /\ soil_value = None
    /\ caller = "none"
    /\ raw = None
    /\ field1 = None
    /\ field23 = <<None, None>>
    /\ msg = "none"
    /\ wire = NoRequest
    /\ IN1 = 0
    /\ IN2 = 0
    /\ ENA = 0
    /\ HEAT_PIN_SOIL = 0
    /\ HEAT_PIN_TEMP = 0
    /\ boot = None
    /\ tick = NewTick
    /\ entry = NewEntry
    /\ runs = NoRuns

----------------------------------------------------------------------------
(* Startup: main(), lines 161-174 *)

\* connect_to_wifi: one iteration of the wait loop (not connected yet)
ConnectWait ==
    /\ pc = "connect_to_wifi"
    /\ wifiTries < MaxWifiTries
    /\ wifiTries' = wifiTries + 1
    /\ clock' = clock + WIFI_SECONDS
    /\ UNCHANGED <<pc, hour, last_upload, current_time, plant_watered, soil_value,
                   caller, raw, field1, field23, msg, wire, pins, boot, tick, entry,
                   runs>>

\* connect_to_wifi: wlan.isconnected() is true, the function returns
Connected ==
    /\ pc = "connect_to_wifi"
    /\ pc' = "ntp"
    /\ UNCHANGED <<clock, wifiTries, hour, last_upload, current_time, plant_watered,
                   soil_value, caller, raw, field1, field23, msg, wire, pins, boot,
                   tick, entry,
                   runs>>

\* ntptime.settime(): the clock is set from the network
NtpSyncTo(times) ==
    /\ pc = "ntp"
    /\ clock' \in times
    /\ pc' = "get_time"
    /\ UNCHANGED <<wifiTries, hour, last_upload, current_time, plant_watered,
                   soil_value, caller, raw, field1, field23, msg, wire, pins, boot,
                   tick, entry,
                   runs>>

NtpSync == NtpSyncTo(BootTimes)

\* now = get_current_time(); hour = now[3]; channel_update("System ON!") is called
GetTime ==
    /\ pc = "get_time"
    /\ hour' = LocalHour(clock)
    /\ msg' = "System ON!"
    /\ pc' = "cu_post"
    /\ UNCHANGED <<clock, wifiTries, last_upload, current_time, plant_watered,
                   soil_value, caller, raw, field1, field23, wire, pins, boot, tick,
                   entry,
                   runs>>

\* channel_update: the status request is built and issued
ChannelPost ==
    /\ pc = "cu_post"
    /\ wire' = [kind |-> "status", status |-> msg, at |-> clock]
    /\ tick' = [tick EXCEPT !.status = @ + 1]
    /\ pc' = "cu_resp"
    /\ UNCHANGED <<clock, wifiTries, hour, last_upload, current_time, plant_watered,
                   soil_value, caller, raw, field1, field23, msg, pins, boot, entry,
                   runs>>

\* channel_update: the response arrives, resp.close(), return to the call site
ChannelResponseIn(latencies) ==
    /\ pc = "cu_resp"
    /\ \E d \in latencies : clock' = clock + d
    /\ wire' = NoRequest
    /\ msg' = "none"
    /\ pc' = IF msg = "System ON!" THEN "loop_init" ELSE "mark_watered"
    /\ UNCHANGED <<wifiTries, hour, last_upload, current_time, plant_watered,
                   soil_value, caller, raw, field1, field23, pins, boot, tick, entry,
                   runs>>

ChannelResponse == ChannelResponseIn(Latencies)


\* a loop entered with the flag already set
LoopInitWatered ==
    /\ pc = "loop_init"
    /\ last_upload' = clock
    /\ plant_watered' = TRUE
    /\ boot' = clock
    /\ pc' = "top"
    /\ UNCHANGED <<clock, wifiTries, hour, current_time, soil_value, caller, raw,
                   field1, field23, msg, wire, pins, tick, entry,
                   runs>>

\* last_upload = time.time(); plant_watered = False
LoopInit ==
    /\ pc = "loop_init"
    /\ last_upload' = clock
    /\ plant_watered' = FALSE
    /\ boot' = clock
    /\ pc' = "top"
    /\ UNCHANGED <<clock, wifiTries, hour, current_time, soil_value, caller, raw,
                   field1, field23, msg, wire, pins, tick, entry,
                   runs>>

----------------------------------------------------------------------------
(* Sensors: get_soil_humidity (96-104) and get_temperature (83-93) *)

SoilHeatOn ==
    /\ pc = "soil_heat"
    /\ HEAT_PIN_SOIL' = 1
    /\ pc' = "soil_settle"
    /\ UNCHANGED <<clock, wifiTries, hour, last_upload, current_time, plant_watered,
                   soil_value, caller, raw, field1, field23, msg, wire, IN1, IN2, ENA,
                   HEAT_PIN_TEMP, boot, tick, entry,
                   runs>>

SoilSettle ==
    /\ pc = "soil_settle"
    /\ clock' = clock + HEAT_SECONDS
    /\ pc' = "soil_measure"
    /\ UNCHANGED <<wifiTries, hour, last_upload, current_time, plant_watered,
                   soil_value, caller, raw, field1, field23, msg, wire, pins, boot,
                   tick, entry,
                   runs>>

\* raw = ADC_SOIL.read_u16()
SoilMeasureFrom(readings) ==
    /\ pc = "soil_measure"
    /\ raw' \in readings
    /\ pc' = "soil_off"
    /\ UNCHANGED <<clock, wifiTries, hour, last_upload, current_time, plant_watered,
                   soil_value, caller, field1, field23, msg, wire, pins, boot, tick,
                   entry,
                   runs>>

SoilMeasure == SoilMeasureFrom(SoilReadings)

\* The first soil reading of a window entry, as the watering check saw it.
FirstSeen(v) ==
    IF entry.first # "none" THEN entry.first
    ELSE IF v > 16000 THEN "dry" ELSE "wet"

\* HEAT_PIN_SOIL.value(0); return raw, to upload_values (131) or to main (188)
SoilHeatOff ==
    /\ pc = "soil_off"
    /\ HEAT_PIN_SOIL' = 0
    /\ raw' = None
    /\ caller' = "none"
    /\ IF caller = "upload_values"
       THEN /\ field1' = raw
            /\ tick' = [tick EXCEPT !.teleReads = @ + 1]
            /\ pc' = "up_settle1"
            /\ UNCHANGED <<soil_value, entry>>
       ELSE /\ soil_value' = raw
            /\ tick' = [tick EXCEPT !.waterReads = @ + 1]
            /\ entry' = [entry EXCEPT !.first = FirstSeen(raw)]
            /\ pc' = "dry_check"
            /\ UNCHANGED field1
    /\ UNCHANGED <<clock, wifiTries, hour, last_upload, current_time, plant_watered,
                   field23, msg, wire, IN1, IN2, ENA, HEAT_PIN_TEMP, boot,
                   runs>>

TempHeatOn ==
    /\ pc = "temp_heat"
    /\ HEAT_PIN_TEMP' = 1
    /\ pc' = "temp_settle"
    /\ UNCHANGED <<clock, wifiTries, hour, last_upload, current_time, plant_watered,
                   soil_value, caller, raw, field1, field23, msg, wire, IN1, IN2, ENA,
                   HEAT_PIN_SOIL, boot, tick, entry,
                   runs>>

TempSettle ==
    /\ pc = "temp_settle"
    /\ clock' = clock + HEAT_SECONDS
    /\ pc' = "temp_measure"
    /\ UNCHANGED <<wifiTries, hour, last_upload, current_time, plant_watered,
                   soil_value, caller, raw, field1, field23, msg, wire, pins, boot,
                   tick, entry,
                   runs>>

\* DHT_SENSOR.measure(); temp = ...; hum = ...
TempMeasure ==
    /\ pc = "temp_measure"
    /\ field23' \in DhtReadings
    /\ pc' = "temp_off"
    /\ UNCHANGED <<clock, wifiTries, hour, last_upload, current_time, plant_watered,
                   soil_value, caller, raw, field1, msg, wire, pins, boot, tick, entry,
                   runs>>

\* HEAT_PIN_TEMP.value(0); return temp, hum to upload_values (133)
TempHeatOff ==
    /\ pc = "temp_off"
    /\ HEAT_PIN_TEMP' = 0
    /\ tick' = [tick EXCEPT !.teleReads = @ + 1]
    /\ pc' = "up_settle2"
    /\ UNCHANGED <<clock, wifiTries, hour, last_upload, current_time, plant_watered,
                   soil_value, caller, raw, field1, field23, msg, wire, IN1, IN2, ENA,
                   HEAT_PIN_SOIL, boot, entry,
                   runs>>

----------------------------------------------------------------------------
(* upload_values (129-140), after its soil read *)


\* upload_values without the delay between the two sensor reads
UploadSettle1Skipped ==
    /\ pc = "up_settle1"
    /\ clock' = clock
    /\ pc' = "temp_heat"
    /\ UNCHANGED <<wifiTries, hour, last_upload, current_time, plant_watered,
                   soil_value, caller, raw, field1, field23, msg, wire, pins, boot,
                   tick, entry,
                   runs>>

UploadSettle1 ==
    /\ pc = "up_settle1"
    /\ clock' = clock + SETTLE_SECONDS
    /\ pc' = "temp_heat"
    /\ UNCHANGED <<wifiTries, hour, last_upload, current_time, plant_watered,
                   soil_value, caller, raw, field1, field23, msg, wire, pins, boot,
                   tick, entry,
                   runs>>

UploadSettle2 ==
    /\ pc = "up_settle2"
    /\ clock' = clock + SETTLE_SECONDS
    /\ pc' = "up_get"
    /\ UNCHANGED <<wifiTries, hour, last_upload, current_time, plant_watered,
                   soil_value, caller, raw, field1, field23, msg, wire, pins, boot,
                   tick, entry,
                   runs>>

\* url = ...; requests.get(url) is issued
UploadGet ==
    /\ pc = "up_get"
    /\ wire' = [kind |-> "readings", field1 |-> field1, field2 |-> field23[1],
                field3 |-> field23[2]]
    /\ tick' = [tick EXCEPT !.uploads = @ + 1]
    /\ pc' = "up_resp"
    /\ UNCHANGED <<clock, wifiTries, hour, last_upload, current_time, plant_watered,
                   soil_value, caller, raw, field1, field23, msg, pins, boot, entry,
                   runs>>

\* the response arrives and is printed; upload_values returns
UploadResponseIn(latencies) ==
    /\ pc = "up_resp"
    /\ \E d \in latencies : clock' = clock + d
    /\ wire' = NoRequest
    /\ field1' = None
    /\ field23' = <<None, None>>
    /\ pc' = "up_done"
    /\ UNCHANGED <<wifiTries, hour, last_upload, current_time, plant_watered,
                   soil_value, caller, raw, msg, pins, boot, tick, entry,
                   runs>>

UploadResponse == UploadResponseIn(Latencies)

----------------------------------------------------------------------------
(* Motor control (111-122) *)

motor_forward(speed) ==
    /\ IN1' = 1
    /\ IN2' = 0
    /\ ENA' = speed


\* motor_stop that clears the direction pins and leaves the duty
motor_stop_keeps_duty ==
    /\ ENA' = ENA
    /\ IN1' = 0
    /\ IN2' = 0

motor_stop ==
    /\ ENA' = 0
    /\ IN1' = 0
    /\ IN2' = 0

----------------------------------------------------------------------------
(* The main loop (176-199) *)


\* the upload check one tick early
UploadDueEarly(now, last) == now - last >= UPLOAD_INTERVAL - TICK_SECONDS

\* current_time - last_upload >= 3600
UploadDue(now, last) == now - last >= UPLOAD_INTERVAL

\* hour in (8, 20)
InWindow(h) == h \in {8, 20}


\* the threshold test with >= for >
IsDryOrEqual(v) == v >= DRY_THRESHOLD

\* the threshold test with the comparison reversed
IsWet(v) == v < DRY_THRESHOLD

\* soil_value > 16000
IsDry(v) == v > DRY_THRESHOLD

\* an hour counter that steps by two
NextHourByTwo(h) == (h + 2) % 24

\* hour = (hour + 1) % 24
NextHour(h) == (h + 1) % 24

\* current_time = time.time(); the upload check
TickStart ==
    /\ pc = "top"
    /\ current_time' = clock
    /\ tick' = [NewTick EXCEPT !.lu0 = last_upload, !.hour0 = hour,
                               !.watered0 = plant_watered]
    /\ IF UploadDue(clock, last_upload)
       THEN /\ caller' = "upload_values"
            /\ pc' = "soil_heat"
       ELSE /\ pc' = "window"
            /\ UNCHANGED caller
    /\ UNCHANGED <<clock, wifiTries, hour, last_upload, plant_watered, soil_value,
                   raw, field1, field23, msg, wire, pins, boot, entry,
                   runs>>

\* while True, for the seconds of main loop that are explored
LoopTop ==
    /\ clock - boot < Horizon
    /\ TickStart


\* last_upload = time.time() after the upload, for last_upload = current_time
UploadStampLate == clock

\* The time stored as last_upload after upload_values has returned.
UploadStamp == current_time

\* last_upload = current_time; hour = (hour + 1) % 24
HourStep ==
    /\ pc = "up_done"
    /\ last_upload' = UploadStamp
    /\ hour' = NextHour(hour)
    /\ pc' = "window"
    /\ UNCHANGED <<clock, wifiTries, current_time, plant_watered, soil_value, caller,
                   raw, field1, field23, msg, wire, pins, boot, tick, entry>>

UploadDone ==
    /\ HourStep
    /\ UNCHANGED runs

\* the same step, the upload counted for the gap between two pump runs
UploadDoneCounted ==
    /\ HourStep
    /\ runs' = [runs EXCEPT !.ups = @ + 1]


\* an else branch that leaves the flag as it is
RearmedNever == plant_watered

\* The flag after a tick whose hour is outside the windows.
Rearmed == FALSE

\* if hour in (8, 20): if not plant_watered: ... else: plant_watered = False
WindowCheck ==
    /\ pc = "window"
    /\ IF InWindow(hour)
       THEN /\ IF ~plant_watered
               THEN /\ caller' = "main"
                    /\ pc' = "soil_heat"
               ELSE /\ pc' = "sleep"
                    /\ UNCHANGED caller
            /\ UNCHANGED <<plant_watered, entry>>
       ELSE /\ plant_watered' = Rearmed
            /\ entry' = NewEntry
            /\ pc' = "sleep"
            /\ UNCHANGED caller
    /\ UNCHANGED <<clock, wifiTries, hour, last_upload, current_time, soil_value,
                   raw, field1, field23, msg, wire, pins, boot, tick,
                   runs>>


\* a check-once watering check: a wet reading also sets the flag
DryCheckOnce ==
    /\ pc = "dry_check"
    /\ pc' = IF IsDry(soil_value) THEN "motor_forward" ELSE "mark_watered"
    /\ UNCHANGED <<clock, wifiTries, hour, last_upload, current_time, plant_watered,
                   soil_value, caller, raw, field1, field23, msg, wire, pins, boot,
                   tick, entry,
                   runs>>

\* if soil_value > 16000
DryCheck ==
    /\ pc = "dry_check"
    /\ pc' = IF IsDry(soil_value) THEN "motor_forward" ELSE "sleep"
    /\ UNCHANGED <<clock, wifiTries, hour, last_upload, current_time, plant_watered,
                   soil_value, caller, raw, field1, field23, msg, wire, pins, boot,
                   tick, entry,
                   runs>>

\* motor_forward(32768)
PumpStart ==
    /\ pc = "motor_forward"
    /\ motor_forward(PUMP_SPEED)
    /\ tick' = [tick EXCEPT !.starts = @ + 1, !.onAt = clock]
    /\ entry' = [entry EXCEPT !.starts = @ + 1]
    /\ pc' = "pump_sleep"
    /\ UNCHANGED <<clock, wifiTries, hour, last_upload, current_time, plant_watered,
                   soil_value, caller, raw, field1, field23, msg, wire, HEAT_PIN_SOIL,
                   HEAT_PIN_TEMP, boot>>

MotorForward ==
    /\ PumpStart
    /\ UNCHANGED runs

\* the same step, the start timed against the pump run before it
MotorForwardTimed ==
    /\ PumpStart
    /\ runs' = [at |-> clock, ups |-> 0,
                gapUps |-> IF runs.at = None THEN None ELSE runs.ups,
                gapSecs |-> IF runs.at = None THEN None ELSE clock - runs.at]

\* time.sleep(60)
PumpSleep ==
    /\ pc = "pump_sleep"
    /\ clock' = clock + PUMP_SECONDS
    /\ pc' = "motor_stop"
    /\ UNCHANGED <<wifiTries, hour, last_upload, current_time, plant_watered,
                   soil_value, caller, raw, field1, field23, msg, wire, pins, boot,
                   tick, entry,
                   runs>>

\* motor_stop(); channel_update("Plants watered!") is called
MotorStop ==
    /\ pc = "motor_stop"
    /\ motor_stop
    /\ tick' = [tick EXCEPT !.stops = @ + 1, !.ranFor = clock - tick.onAt]
    /\ msg' = "Plants watered!"
    /\ pc' = "cu_post"
    /\ UNCHANGED <<clock, wifiTries, hour, last_upload, current_time, plant_watered,
                   soil_value, caller, raw, field1, field23, wire, HEAT_PIN_SOIL,
                   HEAT_PIN_TEMP, boot, entry,
                   runs>>


\* the watering branch without plant_watered = True
MarkWateredSkipped ==
    /\ pc = "mark_watered"
    /\ plant_watered' = plant_watered
    /\ pc' = "sleep"
    /\ UNCHANGED <<clock, wifiTries, hour, last_upload, current_time, soil_value,
                   caller, raw, field1, field23, msg, wire, pins, boot, tick, entry,
                   runs>>

\* plant_watered = True
MarkWatered ==
    /\ pc = "mark_watered"
    /\ plant_watered' = TRUE
    /\ pc' = "sleep"
    /\ UNCHANGED <<clock, wifiTries, hour, last_upload, current_time, soil_value,
                   caller, raw, field1, field23, msg, wire, pins, boot, tick, entry,
                   runs>>

\* time.sleep(30)
Sleep ==
    /\ pc = "sleep"
    /\ clock' = clock + TICK_SECONDS
    /\ pc' = "top"
    /\ UNCHANGED <<wifiTries, hour, last_upload, current_time, plant_watered,
                   soil_value, caller, raw, field1, field23, msg, wire, pins, boot,
                   tick, entry,
                   runs>>

----------------------------------------------------------------------------
(* Faults.  No statement of the program is inside a try block, so an       *)
(* exception raised by a callee ends main(); the pins keep their last      *)
(* values.                                                                 *)

Crash ==
    /\ pc' = "crashed"
    /\ UNCHANGED <<clock, wifiTries, hour, last_upload, current_time, plant_watered,
                   soil_value, caller, raw, field1, field23, msg, pins, boot, tick,
                   entry,
                   runs>>

\* ntptime.settime() raises (no answer from the time server)
NtpFails ==
    /\ pc = "ntp"
    /\ Crash
    /\ UNCHANGED wire

\* ADC_SOIL.read_u16() raises
SoilMeasureFails ==
    /\ pc = "soil_measure"
    /\ Crash
    /\ UNCHANGED wire

\* DHT_SENSOR.measure() raises (time-out or bad checksum of the DHT22)
TempMeasureFails ==
    /\ pc = "temp_measure"
    /\ Crash
    /\ UNCHANGED wire

\* requests.get / requests.post raises (no route, time-out)
RequestFails ==
    /\ pc \in {"cu_resp", "up_resp"}
    /\ Crash
    /\ wire' = NoRequest

\* time.sleep(60) is interrupted (KeyboardInterrupt) while the pump runs
PumpInterrupted ==
    /\ pc = "pump_sleep"
    /\ Crash
    /\ UNCHANGED wire

----------------------------------------------------------------------------

\* The steps that are the same in every specification below.
Steps ==
    \/ ConnectWait \/ Connected \/ GetTime
    \/ ChannelPost \/ LoopInit
    \/ SoilHeatOn \/ SoilSettle \/ SoilHeatOff
    \/ TempHeatOn \/ TempSettle \/ TempMeasure \/ TempHeatOff
    \/ UploadSettle1 \/ UploadSettle2 \/ UploadGet
    \/ WindowCheck \/ DryCheck
    \/ PumpSleep \/ MotorStop \/ MarkWatered \/ Sleep

Next ==
    \/ Steps
    \/ NtpSync \/ SoilMeasure \/ LoopTop \/ UploadDone \/ MotorForward
    \/ ChannelResponse \/ UploadResponse

Fault ==
    \/ NtpFails \/ SoilMeasureFails \/ TempMeasureFails \/ RequestFails
    \/ PumpInterrupted

NextFault == Next \/ Fault

\* The program when every callee returns normally.
Spec == Init /\ [][Next]_vars

\* The program when callees may raise.
SpecFault == Init /\ [][NextFault]_vars

----------------------------------------------------------------------------
(* Half a day: one boot at 08:00:00 local time, a soil that reads one below *)
(* or one above the threshold, requests that return at once, the run       *)
(* followed from the window of hour 8 into the window of hour 20, with the *)
(* pump runs timed.                                                        *)

DayHorizon == 43500     \* seconds of main loop that are explored

DayBootTimes == {(8 - TIMEZONE_OFFSET) * 3600}
DayReadings == {DRY_THRESHOLD, DRY_THRESHOLD + 1}
DayLatencies == {0}

NtpSyncDay == NtpSyncTo(DayBootTimes)

SoilMeasureDay == SoilMeasureFrom(DayReadings)

ChannelResponseDay == ChannelResponseIn(DayLatencies)

UploadResponseDay == UploadResponseIn(DayLatencies)

LoopTopDay ==
    /\ clock - boot < DayHorizon
    /\ TickStart

NextDay ==
    \/ Steps
    \/ NtpSyncDay \/ SoilMeasureDay \/ LoopTopDay \/ UploadDoneCounted
    \/ MotorForwardTimed \/ ChannelResponseDay \/ UploadResponseDay

SpecDay == Init /\ [][NextDay]_vars

----------------------------------------------------------------------------
(* The unbounded run.  After startup the program reads the clock only in   *)
(* current_time - last_upload and in the time stamp of a status report, so *)
(* a run is the same with every time shifted by the same amount: here the  *)
(* step that ends an upload also moves the origin of time to the time the  *)
(* upload was stamped with, which keeps the times of an endless run in a   *)
(* finite range.  The loop has no other exit than an exception, and every  *)
(* sleep and request returns, so the program always takes its next step.   *)

\* last_upload = current_time; hour = (hour + 1) % 24, times counted from
\* current_time afterwards
UploadDoneLive ==
    /\ pc = "up_done"
    /\ last_upload' = UploadStamp - current_time
    /\ hour' = NextHour(hour)
    /\ current_time' = 0
    /\ clock' = clock - current_time
    /\ boot' = 0
    /\ tick' = [tick EXCEPT !.lu0 = @ - current_time]
    /\ pc' = "window"
    /\ UNCHANGED <<wifiTries, plant_watered, soil_value, caller, raw, field1,
                   field23, msg, wire, pins, entry, runs>>

NextLive ==
    \/ Steps
    \/ NtpSync \/ SoilMeasureDay \/ TickStart \/ UploadDoneLive \/ MotorForward
    \/ ChannelResponse \/ UploadResponse

SpecLive == Init /\ [][NextLive]_vars /\ WF_vars(NextLive)

----------------------------------------------------------------------------
(* Properties *)

Windows == {8, 20}
ReadLabels == {"soil_settle", "soil_measure", "soil_off",
               "temp_settle", "temp_measure", "temp_off"}
PumpLabels == {"pump_sleep", "motor_stop"}

\* C1: while the tested hour stays in one window (8 or 20) the pump is
\* started at most once, whatever the soil readings and however many ticks.
C1_PumpOncePerEntry == entry.starts <= 1

\* a later tick of an entry in which the pump has run: it began with the
\* flag set and ends with the hour still in the window
C1_Witness ==
    /\ pc = "sleep"
    /\ hour \in Windows
    /\ tick.watered0
    /\ tick.hour0 = hour
    /\ entry.starts = 1

\* C2: outside the statements between motor_forward and motor_stop the pump
\* is off: duty 0 and both direction pins 0, also after a fault in between.
C2_PumpOffOutsideWatering ==
    pc \notin PumpLabels => (ENA = 0 /\ IN1 = 0 /\ IN2 = 0)

\* C3: a watering check that reads more than 16000 runs the pump at duty
\* 32768 for exactly 60 seconds and leaves duty 0; a reading of 16000 or
\* less starts nothing.
C3_DryRunsSixtySeconds ==
    /\ pc \in PumpLabels => (ENA = 32768 /\ soil_value > 16000)
    /\ (pc = "sleep" /\ tick.waterReads = 1) =>
          IF soil_value > 16000
          THEN tick.starts = 1 /\ tick.stops = 1 /\ tick.ranFor = 60 /\ ENA = 0
          ELSE tick.starts = 0 /\ tick.stops = 0 /\ ENA = 0

\* the end of the first watering check of an entry, which read 16001 and
\* ran the pump
C3_Witness ==
    /\ pc = "sleep"
    /\ tick.waterReads = 1
    /\ entry.first = "dry"
    /\ soil_value = 16001
    /\ tick.ranFor = 60
    /\ ENA = 0

\* C4 as stated: when the first soil reading of a window entry is <= 16000
\* the pump never runs in that entry.
C4_WetFirstNeverPumps == entry.first = "wet" => entry.starts = 0

\* C4 amended: the pump starts only in a tick whose own watering check read
\* more than 16000; a tick that read 16000 or less starts nothing, and a
\* later tick of the same entry may still water.
C4_PumpOnlyOnDryTick ==
    tick.starts >= 1 => (tick.waterReads = 1 /\ soil_value > 16000)

\* an entry whose first reading was wet and whose later tick watered
C4_Witness ==
    /\ entry.first = "wet"
    /\ entry.starts = 1
    /\ tick.starts = 1
    /\ pc = "sleep"

\* C5: in a tick that sampled current_time - last_upload < 3600 nothing is
\* uploaded, no sensor is read for telemetry, and last_upload and hour keep
\* the values they had when the tick began.
C5_NoUploadBeforeInterval ==
    (current_time # None /\ current_time - tick.lu0 < 3600) =>
        /\ tick.uploads = 0
        /\ tick.teleReads = 0
        /\ last_upload = tick.lu0
        /\ hour = tick.hour0
        /\ pc \notin {"up_settle1", "temp_heat", "up_settle2", "up_get", "up_resp",
                      "up_done"} \cup {"temp_settle", "temp_measure", "temp_off"}

\* the end of the last tick before an upload is due
C5_Witness ==
    /\ pc = "sleep"
    /\ current_time # None
    /\ current_time - tick.lu0 = 3570
    /\ tick.uploads = 0

\* C6: a tick that sampled current_time - last_upload >= 3600 ends with
\* exactly one readings request sent and last_upload equal to the time
\* sampled at the start of the tick.
C6_OneUploadStampedAtTickStart ==
    (pc = "sleep" /\ current_time - tick.lu0 >= 3600) =>
        /\ tick.uploads = 1
        /\ tick.teleReads = 2
        /\ last_upload = current_time

\* the end of a tick whose upload fired exactly at 3600 seconds, the clock
\* having moved on during the reads and the request
C6_Witness ==
    /\ pc = "sleep"
    /\ current_time - tick.lu0 = 3600
    /\ tick.uploads = 1
    /\ last_upload = current_time
    /\ clock > current_time

\* C7: at the end of every tick whose tested hour is neither 8 nor 20 the
\* watered flag is false.
C7_FlagOnlyInWindow ==
    pc = "sleep" => (plant_watered => hour \in Windows)

\* the end of a tick that began with the flag set and tested an hour outside
\* the windows
C7_Witness ==
    /\ pc = "sleep"
    /\ tick.watered0
    /\ hour \notin Windows
    /\ ~plant_watered

\* C8: outside a sensor read both heater pins are 0, also when the
\* measurement of a read has failed.
C8_HeatersOffAfterRead ==
    pc \notin ReadLabels => (HEAT_PIN_SOIL = 0 /\ HEAT_PIN_TEMP = 0)

\* C9: a tick in which the hour enters a window and the soil reads dry does
\* one pump run, then one "Plants watered!" report, and ends with the flag
\* set; later ticks of the entry do no pump run, soil read or report; a tick
\* outside the windows ends with the flag false; a "Plants watered!" report
\* is sent only after a completed pump run of the same tick.
C9_EnterWaterReportRearm ==
    /\ (pc = "sleep" /\ tick.hour0 \notin Windows /\ hour \in Windows
            /\ tick.waterReads = 1 /\ soil_value > 16000) =>
          (tick.starts = 1 /\ tick.stops = 1 /\ tick.status = 1 /\ plant_watered)
    /\ (pc = "sleep" /\ tick.watered0 /\ hour \in Windows) =>
          (tick.starts = 0 /\ tick.waterReads = 0 /\ tick.status = 0
              /\ plant_watered)
    /\ (pc = "sleep" /\ hour \notin Windows) => ~plant_watered
    /\ (current_time # None /\ tick.status >= 1) =>
          (tick.status = 1 /\ tick.stops = 1 /\ ENA = 0)
    /\ (wire.kind = "status" /\ wire.status = "Plants watered!") =>
          (tick.stops = 1 /\ ENA = 0 /\ IN1 = 0 /\ IN2 = 0)

\* the end of the tick in which the hour went from 7 to 8 and the soil read
\* 20000
C9_Witness ==
    /\ pc = "sleep"
    /\ tick.hour0 = 7
    /\ hour = 8
    /\ soil_value = 20000
    /\ tick.stops = 1
    /\ tick.status = 1
    /\ plant_watered

\* C10: the hour tested for window membership is the hour of day of the
\* time source at that tick.
C10_TestedHourIsClockHour ==
    pc = "window" => hour = LocalHour(clock)

\* C11: a network failure in upload_values or channel_update, or a failed
\* sensor read, inside the loop does not end the loop: the step at which the
\* request or the measurement is pending never leads to the program's end.
C11_FailureKeepsLooping ==
    [][(current_time # None
          /\ pc \in {"up_resp", "cu_resp", "soil_measure", "temp_measure"})
       => pc' # "crashed"]_vars

\* C12: a failing ntptime.settime() does not prevent startup: the step after
\* the time synchronisation is the rest of the startup, never the program's
\* end.
C12_StartupSurvivesNtpFailure ==
    [][pc = "ntp" => pc' = "get_time"]_vars

\* A reading the probe cannot have produced: the ADC at full scale.
Unreadable(v) == v = MAX_U16

\* C13: a watering check whose soil read failed or returned an unreadable
\* value does not start the pump in that tick.
C13_UnreadableSoilNeverPumps ==
    /\ tick.starts >= 1 => ~Unreadable(soil_value)
    /\ (pc = "crashed" /\ caller = "main") => tick.starts = 0

\* C14: when the loop is entered with the hour already 8 or 20, its first
\* tick reads the soil and runs the pump exactly when the reading is above
\* 16000.
C14_BootInWindowChecksAtOnce ==
    (pc = "sleep" /\ current_time = boot /\ hour \in Windows) =>
        /\ tick.waterReads = 1
        /\ IF soil_value > 16000
           THEN tick.starts = 1 /\ tick.stops = 1 /\ plant_watered
           ELSE tick.starts = 0 /\ ~plant_watered

\* the end of the first tick of a run that booted in hour 8 and watered
C14_Witness ==
    /\ pc = "sleep"
    /\ current_time = boot
    /\ hour = 8
    /\ tick.hour0 = 8
    /\ tick.uploads = 0
    /\ tick.starts = 1
    /\ plant_watered

\* C16: a watering check that reads 16000 or less leaves the flag false;
\* every tick that tests a window hour with the flag false reads the soil;
\* the flag becomes true only in a tick that ran the pump.
C16_RecheckUntilWatered ==
    /\ (pc = "sleep" /\ tick.waterReads = 1 /\ soil_value <= 16000) =>
          ~plant_watered
    /\ (pc = "sleep" /\ hour \in Windows /\ ~tick.watered0) =>
          tick.waterReads = 1
    /\ (current_time # None /\ plant_watered /\ ~tick.watered0) =>
          (tick.starts = 1 /\ tick.stops = 1)

\* the end of a later tick of an entry whose first reading was wet: it read
\* the soil again, found 20000 and watered
C16_Witness ==
    /\ pc = "sleep"
    /\ entry.first = "wet"
    /\ tick.waterReads = 1
    /\ soil_value = 20000
    /\ plant_watered

\* C17: an upload cycle reads the soil, waits 2 s, reads temperature and
\* humidity, waits 2 s and sends one request with the three values; the two
\* heater pins are never 1 together; last_upload changes only after the
\* request has returned.
C17_UploadCycleOrder ==
    /\ ~(HEAT_PIN_SOIL = 1 /\ HEAT_PIN_TEMP = 1)
    /\ pc \in {"temp_heat", "temp_settle", "temp_measure"} =>
          (tick.teleReads = 1 /\ field1 # None /\ field23 = <<None, None>>
              /\ clock - current_time >= 3)
    /\ pc = "up_get" =>
          (tick.teleReads = 2 /\ tick.uploads = 0 /\ clock - current_time = 6)
    /\ wire.kind = "readings" =>
          (wire.field1 \in SoilReadings /\ <<wire.field2, wire.field3>> \in DhtReadings
              /\ tick.uploads = 1 /\ last_upload = tick.lu0)
    /\ (current_time # None /\ last_upload # tick.lu0) =>
          (tick.uploads = 1 /\ wire.kind # "readings"
              /\ pc \notin {"up_get", "up_resp", "up_done"}
              /\ last_upload = current_time)

\* the readings request in flight, six seconds into its tick
C17_Witness ==
    /\ wire.kind = "readings"
    /\ wire.field1 = 20000
    /\ clock - current_time = 6
    /\ pc = "up_resp"

\* C18: when every callee returns normally the pump duty is non-zero only
\* between motor_forward and motor_stop: it is 0 while a request is in
\* flight, while a heater pin is 1 and during the sleep that ends a tick,
\* and the "Plants watered!" request is sent after motor_stop.
C18_PumpOnlyBetweenForwardAndStop ==
    /\ ENA # 0 => (pc \in PumpLabels /\ ENA = 32768 /\ IN1 = 1 /\ IN2 = 0)
    /\ wire # NoRequest => ENA = 0
    /\ (HEAT_PIN_SOIL = 1 \/ HEAT_PIN_TEMP = 1) => ENA = 0
    /\ pc \in {"sleep", "top"} => ENA = 0
    /\ pc \in {"cu_post", "cu_resp"} /\ msg = "Plants watered!" =>
          (tick.stops = 1 /\ ENA = 0)

\* the "Plants watered!" request in flight after a pump run, the pump off
C18_Witness ==
    /\ wire.kind = "status"
    /\ wire.status = "Plants watered!"
    /\ tick.ranFor = 60
    /\ ENA = 0

\* C15: when no callee raises and time advances, uploads happen again and
\* again, the tested hour is 8 again and again and 20 again and again, and
\* a window entry whose soil readings are all above 16000 has exactly one
\* pump start.
C15_UploadsAndWindowsRecur ==
    /\ []<>(pc = "up_done")
    /\ []<>(pc = "window" /\ hour = 8)
    /\ []<>(pc = "window" /\ hour = 20)
    /\ [](pc = "sleep" /\ hour \in Windows /\ entry.first # "wet"
            => entry.starts = 1)

\* the end of a tick, after at least one upload, in which the hour became 20
\* and the one pump run of the entry was done
C15_Witness ==
    /\ pc = "sleep"
    /\ boot = 0
    /\ tick.hour0 = 19
    /\ hour = 20
    /\ entry.first = "dry"
    /\ entry.starts = 1

\* C19: the tested hour changes only in a tick whose upload check fired, and
\* then by one modulo 24; between two pump starts there are at least 12
\* uploads and at least 11 upload intervals of time.
C19_HourStepsWithUploads ==
    /\ current_time # None =>
          \/ hour = tick.hour0
          \/ /\ hour = (tick.hour0 + 1) % 24
             /\ tick.uploads = 1
             /\ current_time - tick.lu0 >= 3600
    /\ runs.gapUps # None =>
          (runs.gapUps >= 12 /\ runs.gapSecs >= 11 * 3600)

\* a second pump start, 12 uploads and less than 12 hours after the first
C19_Witness ==
    /\ runs.gapUps = 12
    /\ runs.gapSecs < 12 * 3600
    /\ hour = 20

====
